---- MODULE Spec2Model ----
(***************************************************************************)
(* Model of pypit/calibrations.py: the Calibrations class, which guides    *)
(* the generation and reuse of calibration products (bias, arc, bad pixel  *)
(* mask, pixel locations, slit traces, wavelength solution, tilts, flat),  *)
(* and of BaseArgFlag.set_flag of src/arparse.py, which applies one line   *)
(* of a settings file.                                                     *)
(*                                                                         *)
(* Every Python value is a record with a "tag" field.  None is the record  *)
(* [tag |-> "None"]; an attribute that __init__ never assigns is Unset and *)
(* reading it raises AttributeError.                                       *)
(***************************************************************************)
EXTENDS Integers, Sequences, FiniteSets, TLC

\* ---------------------------------------------------------------- bounds
MaxSlits == 2       \* largest slit count a trace builder may report
MaxTokens == 4      \* longest settings line, in words
MaxEvals == 2       \* setter calls of one set_flag that are told apart

\* the slit counts a trace builder reports
SlitCounts == {1, MaxSlits}

Setups == {"A", "B"}
Dets == {1}
SciIDs == {1}

\* the accessors whose calls are recorded per setup
Recorded == {"get_arc", "get_bpm"}

\* ---------------------------------------------------------------- values
None == [tag |-> "None"]
Unset == [tag |-> "Unset"]

IsNone(x) == x.tag = "None"
IsUnset(x) == x.tag = "Unset"
IsArt(x) == x.tag \notin {"None", "Unset"}

\* an artifact made by a builder: its tag, the setup it was made under and
\* (for the slit traces) the number of slits.  The payload is opaque.
Art(t, s, ns) == [tag |-> t, setup |-> s, nslits |-> ns]

Mask(m) == [tag |-> "mask", m |-> m]
Zeros(n) == Mask([i \in 1..n |-> FALSE])
\* the masks a builder stage reports for n slits: it flags no slit, the
\* first slit, the last slit, or every slit
Masks(n) == {Mask([i \in 1..n |-> i \in F]) : F \in {{}, {1}, {n}, 1..n}}

\* the settings bundles a caller passes: the flags the class branches on
\* (settings['reduce']['flatfield']['perform'] and
\* settings['reduce']['calibrate']['wavelength'])
SettingsSet == [flat : BOOLEAN, wave : {"pixel", "fit"}]

\* numpy's in-place a += b on boolean vectors: b is broadcast to a's shape
\* when it has a's length or length 1, and the sum of booleans is their OR
Broadcastable(a, b) == Len(b.m) = Len(a.m) \/ Len(b.m) = 1
Iadd(a, b) == Mask([i \in 1..Len(a.m) |-> a.m[i] \/ b.m[IF Len(b.m) = 1 THEN 1 ELSE i]])

VARIABLES
    calib_dict,     \* self.calib_dict: setup -> (key -> value)
    setup, det, sci_ID, settings,
    msarc, msbias, msbpm, pixlocn, tslits_dict, maskslits, wv_calib, mstilts,
    run,            \* the run: the setups of the exposure table (self.fitstbl)
                    \* and the settings bundles its caller configures
    lastCall,       \* what the last call did and returned
    requested,      \* <<setup, accessor>>: the accessor was called under the setup
    turn,           \* the caller (thread) that is running
    pending,        \* caller -> its get_bpm call that is inside bpmImage.build()
    lst, cnt, func, succeed,    \* set_flag: its argument and its locals
    accepts,        \* the values of cnt at which eval(func) returns for lst
    evals,          \* how many times a setter has returned
    at              \* where set_flag is: "idle", "while", "returned", "error"

internals == <<msarc, msbias, msbpm, pixlocn, tslits_dict, maskslits, wv_calib, mstilts>>
scope == <<setup, det, sci_ID, settings>>
flag == <<lst, cnt, func, succeed, accepts, evals, at>>
vars == <<calib_dict, scope, internals, run, lastCall, requested, turn, pending, flag>>

NoCall == [op |-> "none", args |-> {}, outcome |-> "none", ret |-> None,
           ret2 |-> None, warns |-> <<>>, bops |-> <<>>, calls |-> <<>>, by |-> 0]

\* Calibrations.__init__
Construct(tbl) ==
    /\ run = tbl
    /\ requested = {}
    /\ calib_dict = [s \in {} |-> None]
    /\ det = None /\ sci_ID = None /\ settings = None /\ setup = None
    /\ msarc = None /\ msbias = None /\ pixlocn = None
    /\ tslits_dict = None /\ maskslits = None
    /\ msbpm = Unset /\ wv_calib = Unset /\ mstilts = Unset
    /\ lastCall = NoCall
    /\ turn = 1
    /\ pending = [w \in {} |-> None]

\* ---------------------------------------------------------------- helpers
\* an assignment that drops the other keys of the dict
Put_Only(d, k, v) == [x \in {k} |-> v]

\* dict[key] = value
Put(d, k, v) == [x \in (DOMAIN d) \cup {k} |-> IF x = k THEN v ELSE d[x]]

\* an assignment that reaches the bucket of every setup
Store_All(d, s, k, v) == [x \in DOMAIN d |-> Put(d[x], k, v)]

\* self.calib_dict[self.setup][key] = value
Store(d, s, k, v) == [d EXCEPT ![s] = Put(@, k, v)]

\* a cache lookup that never hits
InCalib_Never(k) == FALSE

\* 'key' in self.calib_dict[self.setup].keys()
InCalib(k) == k \in DOMAIN calib_dict[setup.id]

SetupVal(s) == [tag |-> "setup", id |-> s]
Num(n) == [tag |-> "int", v |-> n]

\* Calibrations._chk_set: TRUE when no listed item is None
_chk_set(items) == \A i \in 1..Len(items) : ~IsNone(items[i])

\* "Strip ms" in _chk_objs
StripMs(obj) ==
    CASE obj = "msarc" -> "arc"
      [] obj = "mstilts" -> "tilts"
      [] obj = "msbias" -> "bias"
      [] OTHER -> obj

\* the warnings _chk_objs logs for a missing object
ObjWarns(obj) ==
    << [fmt |-> "You need to generate {} prior to wavelength calibration..", arg |-> obj],
       IF obj \in {"tslits_dict", "maskslits"}
       THEN [fmt |-> "Use get_slits", arg |-> ""]
       ELSE [fmt |-> "Use get_{}", arg |-> StripMs(obj)] >>

\* Calibrations._chk_objs over <<name, value>> pairs: the index of the first
\* item that stops the loop (0 when every item is set)
RECURSIVE FirstBad(_, _)
FirstBad(items, i) ==
    IF i > Len(items) THEN 0
    ELSE IF IsUnset(items[i][2]) \/ IsNone(items[i][2]) THEN i
    ELSE FirstBad(items, i + 1)

\* the record of a call: the accessor, the names of the optional arguments
\* the caller supplied, how the call ended (ok: it returned; unavailable: it
\* returned nothing after a failed _chk_objs; otherwise the exception),
\* the values returned, the warnings logged, the builder operations run,
\* (for full_calibrate) the methods called, in order, and the caller
Call(op, args, outcome, ret, ret2, warns, bops) ==
    [op |-> op, args |-> args, outcome |-> outcome, ret |-> ret,
     ret2 |-> ret2, warns |-> warns, bops |-> bops, calls |-> <<>>, by |-> turn]

DoneArgs(op, args, outcome, ret, ret2, warns, bops) ==
    /\ lastCall' = Call(op, args, outcome, ret, ret2, warns, bops)
    /\ requested' = IF op \in Recorded /\ ~IsNone(setup)
                    THEN requested \cup {<<setup.id, op>>} ELSE requested
    /\ UNCHANGED <<run, flag, turn, pending>>

Done(op, outcome, ret, ret2, warns, bops) ==
    DoneArgs(op, {}, outcome, ret, ret2, warns, bops)

\* the names of the optional arguments that are not None
Given(pairs) == {pairs[i][1] : i \in {j \in 1..Len(pairs) : ~IsNone(pairs[j][2])}}

\* a builder that computes without looking for a master first
BOps_NoLoad(r) ==
    CASE r = "hit" -> <<>>
      [] r = "load" -> <<"load">>
      [] r = "build" -> <<"build">>
      [] r = "BuildError" -> <<"build">>
      [] OTHER -> <<"build", "persist">>

\* a builder that runs its compute step again when it fails
BOps_Retry(r) ==
    CASE r = "hit" -> <<>>
      [] r = "load" -> <<"load">>
      [] r = "build" -> <<"build">>
      [] r = "BuildError" -> <<"load", "build", "build">>
      [] OTHER -> <<"load", "build", "persist">>

\* what a master()/build_image()/save_master() sequence can come to: the
\* master is found, or it is built and saved, or the build or the save fails;
\* BOps: the builder operations run ("hit": the product was in calib_dict;
\* "build": bpmImage.build() alone, which loads and saves nothing)
MasterResults == {"load", "ok", "BuildError", "PersistenceError"}
BOps(r) ==
    CASE r = "hit" -> <<>>
      [] r = "load" -> <<"load">>
      [] r = "build" -> <<"build">>
      [] r = "BuildError" -> <<"load", "build">>
      [] OTHER -> <<"load", "build", "persist">>

\* ---------------------------------------------------------------- operations
\* Calibrations.set
set ==
    \E s \in run.setups, d \in Dets, i \in SciIDs, st \in run.settings :
        /\ setup' = SetupVal(s)
        /\ det' = Num(d)
        /\ sci_ID' = Num(i)
        /\ settings' = [tag |-> "settings", flat |-> st.flat, wave |-> st.wave, extra |-> {}]
        /\ calib_dict' = IF s \in DOMAIN calib_dict THEN calib_dict
                         ELSE Put(calib_dict, s, [k \in {} |-> None])
        /\ lastCall' = [NoCall EXCEPT !.op = "set", !.outcome = "ok", !.by = turn]
        /\ UNCHANGED <<internals, run, flag, requested, turn, pending>>

\* Calibrations.get_bias
get_bias ==
    IF ~_chk_set(<<setup, det, sci_ID, settings>>)
    THEN /\ Done("get_bias", "ConfigurationError", None, None, <<>>, <<>>)
         /\ UNCHANGED <<calib_dict, scope, internals>>
    ELSE IF InCalib("bias")
    THEN /\ msbias' = calib_dict[setup.id]["bias"]
         /\ Done("get_bias", "ok", msbias', None, <<>>, <<>>)
         /\ UNCHANGED <<calib_dict, scope, msarc, msbpm, pixlocn, tslits_dict, maskslits,
                        wv_calib, mstilts>>
    ELSE \/ \* biasFrame.master() finds the master frame
            /\ Done("get_bias", "ok", Art("bias", setup.id, 0), None, <<>>, <<"load">>)
            /\ UNCHANGED <<calib_dict, scope, internals>>
         \/ \* master() returns None: build_image, save_master
            /\ \E res \in {"ok", "BuildError", "PersistenceError"} :
                 LET new == Art("bias", setup.id, 0) IN
                 /\ Done("get_bias", res, IF res = "ok" THEN new ELSE None, None, <<>>,
                         BOps(res))
                 /\ UNCHANGED <<calib_dict, scope, internals>>

\* the values a caller can pass for an optional argument: nothing, or one
\* of the images of the run
Overrides(t) == {None} \cup {Art(t, s, 0) : s \in run.images}

\* an optional argument that is dropped
Assigned_Never(arg, held) == held

\* "if arc is not None: self.msarc = arc": the attribute after the test
Assigned(arg, held) == IF ~IsNone(arg) THEN arg ELSE held

\* Calibrations.get_arc
get_arc ==
    \E bias \in Overrides("bias") :
    LET b == Assigned(bias, msbias) IN
    /\ msbias' = b
    /\ IF IsNone(b)
       THEN /\ DoneArgs("get_arc", Given(<<<<"bias", bias>>>>), "PrerequisiteError", None, None, <<>>, <<>>)
            /\ UNCHANGED <<calib_dict, scope, msarc, msbpm, pixlocn, tslits_dict, maskslits,
                           wv_calib, mstilts>>
       ELSE IF ~_chk_set(<<setup, det, sci_ID, settings>>)
       THEN /\ DoneArgs("get_arc", Given(<<<<"bias", bias>>>>), "ConfigurationError", None, None, <<>>, <<>>)
            /\ UNCHANGED <<calib_dict, scope, msarc, msbpm, pixlocn, tslits_dict, maskslits,
                           wv_calib, mstilts>>
       ELSE IF InCalib("arc")
       THEN /\ msarc' = calib_dict[setup.id]["arc"]
            /\ DoneArgs("get_arc", Given(<<<<"bias", bias>>>>), "ok", msarc', None, <<>>, <<>>)
            /\ UNCHANGED <<calib_dict, scope, msbpm, pixlocn, tslits_dict, maskslits,
                           wv_calib, mstilts>>
       ELSE \/ \* arcImage.master() finds the master frame
               /\ msarc' = Art("arc", setup.id, 0)
               /\ DoneArgs("get_arc", Given(<<<<"bias", bias>>>>), "ok", msarc', None, <<>>, <<"load">>)
               /\ UNCHANGED <<calib_dict, scope, msbpm, pixlocn, tslits_dict, maskslits,
                              wv_calib, mstilts>>
            \/ \* master() returns None: build_image, save_master
               /\ \E res \in {"ok", "BuildError", "PersistenceError"} :
                    LET new == Art("arc", setup.id, 0) IN
                    /\ msarc' = IF res = "BuildError" THEN None ELSE new
                    /\ DoneArgs("get_arc", Given(<<<<"bias", bias>>>>), res, IF res = "ok" THEN new ELSE None, None, <<>>,
                            BOps(res))
                    /\ UNCHANGED <<calib_dict, scope, msbpm, pixlocn, tslits_dict, maskslits,
                                   wv_calib, mstilts>>

\* Calibrations.get_bpm
get_bpm ==
    \E arc \in Overrides("arc"), bias \in Overrides("bias") :
    LET a == Assigned(arc, msarc)
        b == Assigned(bias, msbias)
    IN
    /\ msarc' = a
    /\ msbias' = b
    /\ IF ~_chk_set(<<det, settings, sci_ID>>)
       THEN /\ DoneArgs("get_bpm", Given(<<<<"arc", arc>>, <<"bias", bias>>>>), "ConfigurationError", None, None, <<>>, <<>>)
            /\ UNCHANGED <<calib_dict, scope, msbpm, pixlocn, tslits_dict, maskslits,
                           wv_calib, mstilts>>
       ELSE IF InCalib("bpm")
       THEN /\ msbpm' = calib_dict[setup.id]["bpm"]
            /\ DoneArgs("get_bpm", Given(<<<<"arc", arc>>, <<"bias", bias>>>>), "ok", msbpm', None, <<>>, <<>>)
            /\ UNCHANGED <<calib_dict, scope, pixlocn, tslits_dict, maskslits,
                           wv_calib, mstilts>>
       ELSE IF IsNone(a)
       THEN \* self.msarc.shape
            /\ DoneArgs("get_bpm", Given(<<<<"arc", arc>>, <<"bias", bias>>>>), "AttributeError", None, None, <<>>, <<>>)
            /\ UNCHANGED <<calib_dict, scope, msbpm, pixlocn, tslits_dict, maskslits,
                           wv_calib, mstilts>>
       ELSE /\ \E res \in {"ok", "BuildError"} :
                 LET new == Art("bpm", setup.id, 0) IN
                 /\ msbpm' = IF res = "ok" THEN new ELSE msbpm
                 /\ calib_dict' = IF res = "ok"
                                  THEN Store(calib_dict, setup.id, "bpm", new)
                                  ELSE calib_dict
                 /\ DoneArgs("get_bpm", Given(<<<<"arc", arc>>, <<"bias", bias>>>>), res, IF res = "ok" THEN new ELSE None, None, <<>>,
                         <<"build">>)
                 /\ UNCHANGED <<scope, pixlocn, tslits_dict, maskslits, wv_calib, mstilts>>

\* Calibrations.get_pixlocn
get_pixlocn ==
    \E arc \in Overrides("arc") :
    LET a == Assigned(arc, msarc) IN
    /\ msarc' = a
    /\ IF ~_chk_set(<<settings>>)
       THEN /\ DoneArgs("get_pixlocn", Given(<<<<"arc", arc>>>>), "ConfigurationError", None, None, <<>>, <<>>)
            /\ UNCHANGED pixlocn
       ELSE IF IsNone(a)
       THEN \* self.msarc.shape
            /\ DoneArgs("get_pixlocn", Given(<<<<"arc", arc>>>>), "AttributeError", None, None, <<>>, <<>>)
            /\ UNCHANGED pixlocn
       ELSE /\ pixlocn' = Art("pixlocn", setup.id, 0)
            /\ DoneArgs("get_pixlocn", Given(<<<<"arc", arc>>>>), "ok", pixlocn', None, <<>>, <<>>)
    /\ UNCHANGED <<calib_dict, scope, msbias, msbpm, tslits_dict, maskslits, wv_calib,
                   mstilts>>

\* Calibrations.get_slits
get_slits ==
    IF FirstBad(<<<<"pixlocn", pixlocn>>>>, 1) # 0
    THEN /\ Done("get_slits", "unavailable", None, None, ObjWarns("pixlocn"), <<>>)
         /\ UNCHANGED <<calib_dict, scope, internals>>
    ELSE IF ~_chk_set(<<det, settings, setup, sci_ID>>)
    THEN /\ Done("get_slits", "ConfigurationError", None, None, <<>>, <<>>)
         /\ UNCHANGED <<calib_dict, scope, internals>>
    ELSE IF InCalib("trace")
    THEN /\ tslits_dict' = calib_dict[setup.id]["trace"]
         /\ maskslits' = Zeros(tslits_dict'.nslits)
         /\ Done("get_slits", "ok", tslits_dict', maskslits', <<>>, <<>>)
         /\ UNCHANGED <<calib_dict, scope, msarc, msbias, msbpm, pixlocn, wv_calib, mstilts>>
    ELSE IF IsUnset(msbpm)
    THEN \* binbpx=self.msbpm
         /\ Done("get_slits", "AttributeError", None, None, <<>>, <<>>)
         /\ UNCHANGED <<calib_dict, scope, internals>>
    ELSE LET stored(t) == /\ tslits_dict' = t
                          /\ calib_dict' = Store(calib_dict, setup.id, "trace", t)
                          /\ maskslits' = Zeros(t.nslits)
         IN
         \/ \* traceSlits.master() loads the slits
            \E ns \in SlitCounts :
            /\ stored(Art("trace", setup.id, ns))
            /\ Done("get_slits", "ok", tslits_dict', maskslits', <<>>, <<"load">>)
            /\ UNCHANGED <<scope, msarc, msbias, msbpm, pixlocn, wv_calib, mstilts>>
         \/ \* trace image, run, save_master
            \E res \in {"ok", "BuildError", "PersistenceError"}, ns \in SlitCounts :
              LET new == Art("trace", setup.id, ns) IN
              IF res = "ok"
              THEN /\ stored(new)
                   /\ Done("get_slits", "ok", new, maskslits', <<>>, <<"load", "build", "persist">>)
                   /\ UNCHANGED <<scope, msarc, msbias, msbpm, pixlocn, wv_calib, mstilts>>
              ELSE /\ Done("get_slits", res, None, None, <<>>,
                           BOps(res))
                   /\ UNCHANGED <<calib_dict, scope, internals>>

\* "Mask me" and the return of get_wv_calib and get_tilts
MaskMe(op, args, art, stage, bops) ==
    IF IsNone(maskslits)
    THEN /\ DoneArgs(op, args, "TypeError", None, None, <<>>, bops)
         /\ UNCHANGED maskslits
    ELSE IF ~Broadcastable(maskslits, stage)
    THEN /\ DoneArgs(op, args, "ValueError", None, None, <<>>, bops)
         /\ UNCHANGED maskslits
    ELSE /\ maskslits' = Iadd(maskslits, stage)
         /\ DoneArgs(op, args, "ok", art, maskslits', <<>>, bops)

\* a stage mask that flags every slit
ZerosLike_Ones(x) == IF IsNone(x) THEN Mask(<<>>) ELSE Mask([i \in 1..Len(x.m) |-> TRUE])

\* np.zeros_like(self.maskslits, dtype=bool)
ZerosLike(x) == IF IsNone(x) THEN Mask(<<>>) ELSE Zeros(Len(x.m))

\* Calibrations.get_wv_calib
get_wv_calib ==
    \E arc \in Overrides("arc") :
    LET a == Assigned(arc, msarc)
        items == <<<<"msarc", a>>, <<"tslits_dict", tslits_dict>>, <<"pixlocn", pixlocn>>>>
        bad == FirstBad(items, 1)
    IN
    /\ msarc' = a
    /\ UNCHANGED <<setup, det, sci_ID, msbias, msbpm, pixlocn, tslits_dict, mstilts>>
    /\ IF bad # 0
       THEN /\ DoneArgs("get_wv_calib", Given(<<<<"arc", arc>>>>), "unavailable", None, None, ObjWarns(items[bad][1]), <<>>)
            /\ UNCHANGED <<calib_dict, settings, maskslits, wv_calib>>
       ELSE IF ~_chk_set(<<det, settings, setup, sci_ID>>)
       THEN /\ DoneArgs("get_wv_calib", Given(<<<<"arc", arc>>>>), "ConfigurationError", None, None, <<>>, <<>>)
            /\ UNCHANGED <<calib_dict, settings, maskslits, wv_calib>>
       ELSE IF InCalib("wavecalib")
       THEN /\ wv_calib' = calib_dict[setup.id]["wavecalib"]
            /\ MaskMe("get_wv_calib", Given(<<<<"arc", arc>>>>), wv_calib', calib_dict[setup.id]["wvmask"], <<>>)
            /\ UNCHANGED <<calib_dict, settings>>
       ELSE IF settings.wave = "pixel"
       THEN /\ wv_calib' = None
            /\ MaskMe("get_wv_calib", Given(<<<<"arc", arc>>>>), None, ZerosLike(maskslits), <<>>)
            /\ UNCHANGED <<calib_dict, settings>>
       ELSE LET new == Art("wavecalib", setup.id, 0)
                stored(w, m) ==
                    /\ wv_calib' = w
                    /\ calib_dict' = Store(Store(calib_dict, setup.id, "wavecalib", w), setup.id, "wvmask", m)
            IN
            /\ settings' = [settings EXCEPT !.extra = @ \cup {"calibrate"}]
            /\ \/ \* waveCalib.master() loads the solution
                  \E m \in Masks(tslits_dict.nslits) :
                    /\ stored(new, m)
                    /\ MaskMe("get_wv_calib", Given(<<<<"arc", arc>>>>), new, m, <<"load">>)
               \/ \* waveCalib.run, save_master
                  \E res \in {"ok", "BuildError", "PersistenceError"} :
                    IF res = "ok"
                    THEN /\ \E m \in Masks(tslits_dict.nslits) :
                              /\ stored(new, m)
                              /\ MaskMe("get_wv_calib", Given(<<<<"arc", arc>>>>), new, m, <<"load", "build", "persist">>)
                    ELSE /\ wv_calib' = IF res = "BuildError" THEN None ELSE new
                         /\ DoneArgs("get_wv_calib", Given(<<<<"arc", arc>>>>), res, None, None, <<>>,
                                 BOps(res))
                         /\ UNCHANGED <<calib_dict, maskslits>>

\* Calibrations.get_tilts (its arc argument is not used)
get_tilts ==
    LET items == <<<<"msarc", msarc>>, <<"tslits_dict", tslits_dict>>, <<"pixlocn", pixlocn>>,
                   <<"wv_calib", wv_calib>>, <<"maskslits", maskslits>>>>
        bad == FirstBad(items, 1)
    IN
    /\ UNCHANGED <<setup, det, sci_ID, msarc, msbias, msbpm, pixlocn, tslits_dict, wv_calib>>
    /\ IF bad # 0 /\ IsUnset(items[bad][2])
       THEN \* getattr(self, obj) of an attribute that was never assigned
            /\ Done("get_tilts", "AttributeError", None, None, <<>>, <<>>)
            /\ UNCHANGED <<calib_dict, settings, maskslits, mstilts>>
       ELSE IF bad # 0
       THEN /\ Done("get_tilts", "unavailable", None, None, ObjWarns(items[bad][1]), <<>>)
            /\ UNCHANGED <<calib_dict, settings, maskslits, mstilts>>
       ELSE IF ~_chk_set(<<det, settings, setup, sci_ID>>)
       THEN /\ Done("get_tilts", "ConfigurationError", None, None, <<>>, <<>>)
            /\ UNCHANGED <<calib_dict, settings, maskslits, mstilts>>
       ELSE IF InCalib("tilts")
       THEN /\ mstilts' = calib_dict[setup.id]["tilts"]
            /\ MaskMe("get_tilts", {}, mstilts', calib_dict[setup.id]["wtmask"], <<>>)
            /\ UNCHANGED <<calib_dict, settings>>
       ELSE LET new == Art("tilts", setup.id, 0)
                stored(t, m) ==
                    /\ mstilts' = t
                    /\ calib_dict' = Store(Store(calib_dict, setup.id, "tilts", t), setup.id, "wtmask", m)
            IN
            /\ settings' = [settings EXCEPT !.extra = @ \cup {"tilts"}]
            /\ \/ \* waveTilts.master() loads the tilts
                  /\ stored(new, ZerosLike(maskslits))
                  /\ MaskMe("get_tilts", {}, new, ZerosLike(maskslits), <<"load">>)
               \/ \* waveTilts.run, save_master
                  \E res \in {"ok", "BuildError", "PersistenceError"} :
                    IF res = "ok"
                    THEN /\ \E m \in Masks(Len(maskslits.m)) :
                              /\ stored(new, m)
                              /\ MaskMe("get_tilts", {}, new, m, <<"load", "build", "persist">>)
                    ELSE /\ mstilts' = IF res = "BuildError" THEN None ELSE new
                         /\ Done("get_tilts", res, None, None, <<>>,
                                 BOps(res))
                         /\ UNCHANGED <<calib_dict, maskslits>>

\* a flat-field switch that is always on
FlatPerform_Always(st) == TRUE

\* self.settings['reduce']['flatfield']['perform']
FlatPerform(st) == st.flat

\* Calibrations.get_pixflatnrm
get_pixflatnrm ==
    /\ UNCHANGED <<scope, internals>>
    /\ IF IsNone(settings)
       THEN \* self.settings['reduce']
            /\ Done("get_pixflatnrm", "TypeError", None, None, <<>>, <<>>)
            /\ UNCHANGED <<calib_dict>>
       ELSE IF ~FlatPerform(settings)
       THEN /\ Done("get_pixflatnrm", "ok", None, None, <<>>, <<>>)
            /\ UNCHANGED <<calib_dict>>
       ELSE IF IsNone(tslits_dict)
       THEN /\ Done("get_pixflatnrm", "unavailable", None, None, ObjWarns("tslits_dict"), <<>>)
            /\ UNCHANGED <<calib_dict>>
       ELSE IF IsUnset(mstilts)
       THEN /\ Done("get_pixflatnrm", "AttributeError", None, None, <<>>, <<>>)
            /\ UNCHANGED <<calib_dict>>
       ELSE IF IsNone(mstilts)
       THEN /\ Done("get_pixflatnrm", "unavailable", None, None, ObjWarns("mstilts"), <<>>)
            /\ UNCHANGED <<calib_dict>>
       ELSE IF ~_chk_set(<<det, settings, sci_ID, setup>>)
       THEN /\ Done("get_pixflatnrm", "ConfigurationError", None, None, <<>>, <<>>)
            /\ UNCHANGED <<calib_dict>>
       ELSE IF InCalib("normpixelflat")
       THEN /\ Done("get_pixflatnrm", "ok", calib_dict[setup.id]["normpixelflat"],
                    calib_dict[setup.id]["slitprof"], <<>>, <<>>)
            /\ UNCHANGED <<calib_dict>>
       ELSE LET new == Art("normpixelflat", setup.id, 0)
                prof == Art("slitprof", setup.id, 0)
                stored(f) == calib_dict' = Store(Store(calib_dict, setup.id, "normpixelflat", f), setup.id, "slitprof", prof)
            IN
            \/ \* flatField.master() loads the flat, load_master_slitprofile
               /\ stored(new)
               /\ Done("get_pixflatnrm", "ok", new, prof, <<>>, <<"load", "load">>)
            \/ \* flatField.run, save_master of the flat and of the slit profile
               \E res \in {"ok", "BuildError", "PersistenceError"} :
                 IF res = "ok"
                 THEN /\ stored(new)
                      /\ Done("get_pixflatnrm", "ok", new, prof, <<>>,
                              <<"load", "build", "persist", "persist">>)
                 ELSE /\ Done("get_pixflatnrm", res, None, None, <<>>,
                              BOps(res))
                      /\ UNCHANGED <<calib_dict>>

\* Calibrations.full_calibrate: get_bias(), get_arc(msbias),
\* get_bpm(msarc, msbias), then make_pixlocn(msarc), a method the class does
\* not have.  An exception of a call ends the driver with what the calls
\* before it assigned.
full_calibrate ==
    IF ~_chk_set(<<setup, det, sci_ID, settings>>)
    THEN \* raised by get_bias
         /\ lastCall' = [Call("full_calibrate", {}, "ConfigurationError", None, None, <<>>, <<>>)
                            EXCEPT !.calls = <<"get_bias">>]
         /\ UNCHANGED <<calib_dict, scope, internals, run, flag, requested, turn, pending>>
    ELSE LET biasHit == InCalib("bias")
             arcHit == InCalib("arc")
             bpmHit == InCalib("bpm")
             bias == IF biasHit THEN calib_dict[setup.id]["bias"] ELSE Art("bias", setup.id, 0)
             arc == IF arcHit THEN calib_dict[setup.id]["arc"] ELSE Art("arc", setup.id, 0)
             bpm == IF bpmHit THEN calib_dict[setup.id]["bpm"] ELSE Art("bpm", setup.id, 0)
             raised(r) == r \in {"BuildError", "PersistenceError"}
             ended(outcome, bops, calls) ==
                 lastCall' = [Call("full_calibrate", {}, outcome, None, None, <<>>, bops)
                                 EXCEPT !.calls = calls]
         IN
         /\ UNCHANGED <<scope, run, flag, pixlocn, tslits_dict, maskslits, wv_calib, mstilts,
                        turn, pending>>
         /\ \E r1 \in IF biasHit THEN {"hit"} ELSE MasterResults :
            IF raised(r1)
            THEN \* get_bias raises
                 /\ ended(r1, BOps(r1), <<"get_bias">>)
                 /\ UNCHANGED <<calib_dict, msbias, msarc, msbpm, requested>>
            ELSE
            /\ msbias' = bias
            /\ \E r2 \in IF arcHit THEN {"hit"} ELSE MasterResults :
               IF raised(r2)
               THEN \* get_arc raises
                    /\ msarc' = IF r2 = "BuildError" THEN None ELSE arc
                    /\ requested' = requested \cup {<<setup.id, "get_arc">>}
                    /\ ended(r2, BOps(r1) \o BOps(r2), <<"get_bias", "get_arc">>)
                    /\ UNCHANGED <<calib_dict, msbpm>>
               ELSE
               /\ msarc' = arc
               /\ requested' = requested \cup {<<setup.id, "get_arc">>, <<setup.id, "get_bpm">>}
               /\ \E r3 \in IF bpmHit THEN {"hit"} ELSE {"build", "BuildError"} :
                  IF raised(r3)
                  THEN \* get_bpm raises
                       /\ ended(r3, BOps(r1) \o BOps(r2) \o <<"build">>,
                                <<"get_bias", "get_arc", "get_bpm">>)
                       /\ UNCHANGED <<calib_dict, msbpm>>
                  ELSE \* the three accessors returned: self.make_pixlocn
                       /\ msbpm' = bpm
                       /\ calib_dict' = Store(calib_dict, setup.id, "bpm", bpm)
                       /\ ended("AttributeError", BOps(r1) \o BOps(r2) \o BOps(r3),
                                <<"get_bias", "get_arc", "get_bpm", "make_pixlocn">>)

\* ---------------------------------------------------------------- arparse
\* the words of a settings line, and the lines load_lines hands to set_flag
\* (ll.strip().split() of a line that is not blank)
Tokens == {"k", "v"}
Lines == UNION {[1..n -> Tokens] : n \in 1..MaxTokens}

\* no set_flag call has been made
NoLine ==
    /\ lst = <<>> /\ cnt = 0 /\ func = None /\ succeed = FALSE
    /\ accepts = {} /\ evals = 0 /\ at = "idle"

\* "self." + "_".join(lst[:-cnt]) + "(" + " ".join(lst[-cnt:]) + ")":
\* the setter named by all but the last c words, called with the last c
Func(l, c) == [tag |-> "call", name |-> SubSeq(l, 1, Len(l) - c),
               args |-> SubSeq(l, Len(l) - c + 1, Len(l))]

\* BaseArgFlag.set_flag, up to the loop: the line arrives, and eval(func)
\* will return for some of its splits and raise for the others
set_flag ==
    /\ at = "idle"
    /\ \E l \in Lines : \E ok \in SUBSET (1..(Len(l) - 1)) :
         /\ lst' = l
         /\ accepts' = ok
    /\ cnt' = 1 /\ func' = None /\ succeed' = FALSE
    /\ at' = "while"
    /\ UNCHANGED <<calib_dict, scope, internals, run, lastCall, requested, turn, pending, evals>>

\* one pass of "while cnt < len(lst)": the try block, or the except block
set_flag_while ==
    /\ at = "while"
    /\ cnt < Len(lst)
    /\ func' = Func(lst, cnt)
    /\ IF cnt \in accepts
       THEN \* eval(func) returned: succeed = True, and the loop goes on
            /\ succeed' = TRUE
            /\ evals' = IF evals < MaxEvals THEN evals + 1 ELSE evals
            /\ UNCHANGED cnt
       ELSE \* except: cnt += 1; continue
            /\ cnt' = cnt + 1
            /\ UNCHANGED <<succeed, evals>>
    /\ UNCHANGED <<calib_dict, scope, internals, run, lastCall, requested, turn, pending,
                   lst, accepts, at>>

\* the loop condition is false: msgs.error when no setter returned, or return
set_flag_end ==
    /\ at = "while"
    /\ ~(cnt < Len(lst))
    /\ at' = IF succeed THEN "returned" ELSE "error"
    /\ UNCHANGED <<calib_dict, scope, internals, run, lastCall, requested, turn, pending,
                   lst, cnt, func, succeed, accepts, evals>>

\* the callers (threads) that share one Calibrations object
Callers == {1, 2}

\* the interpreter switches to the other caller
yield ==
    /\ turn' = CHOOSE w \in Callers : w # turn
    /\ UNCHANGED <<calib_dict, scope, internals, run, flag, lastCall, requested, pending>>

\* Calibrations.set, called by the running caller for a setup it works on
configure ==
    /\ turn \notin DOMAIN pending
    /\ set
    /\ setup'.id \in run.homes[turn]

\* Calibrations.get_bpm up to the call of bpmImage.build(): the caller
\* takes the arguments, checks the scope and looks the mask up; on a miss
\* it reads self.msarc.shape and enters the build, holding no lock
get_bpm_enter ==
    /\ turn \notin DOMAIN pending
    /\ \E arc \in Overrides("arc"), bias \in Overrides("bias") :
       LET a == Assigned(arc, msarc)
           b == Assigned(bias, msbias)
           args == Given(<<<<"arc", arc>>, <<"bias", bias>>>>)
       IN
       /\ msarc' = a
       /\ msbias' = b
       /\ UNCHANGED <<calib_dict, scope, pixlocn, tslits_dict, maskslits, wv_calib, mstilts>>
       /\ IF ~_chk_set(<<det, settings, sci_ID>>)
          THEN /\ DoneArgs("get_bpm", args, "ConfigurationError", None, None, <<>>, <<>>)
               /\ UNCHANGED msbpm
          ELSE IF InCalib("bpm")
          THEN /\ msbpm' = calib_dict[setup.id]["bpm"]
               /\ DoneArgs("get_bpm", args, "ok", msbpm', None, <<>>, <<>>)
          ELSE IF IsNone(a)
          THEN /\ DoneArgs("get_bpm", args, "AttributeError", None, None, <<>>, <<>>)
               /\ UNCHANGED msbpm
          ELSE /\ pending' = Put(pending, turn, [tag |-> "get_bpm", args |-> args,
                                                 setup |-> setup.id])
               /\ UNCHANGED <<msbpm, run, flag, lastCall, requested, turn>>

\* Calibrations.get_bpm from the return of bpmImage.build(): the mask is
\* assigned, stored under the setup that is active now, and returned
get_bpm_leave ==
    /\ turn \in DOMAIN pending
    /\ \E res \in {"ok", "BuildError"} :
       LET mine == pending[turn]
           new == Art("bpm", mine.setup, 0)
       IN
       /\ msbpm' = IF res = "ok" THEN new ELSE msbpm
       /\ calib_dict' = IF res = "ok" THEN Store(calib_dict, setup.id, "bpm", new)
                        ELSE calib_dict
       /\ lastCall' = Call("get_bpm", mine.args, res, IF res = "ok" THEN new ELSE None,
                           None, <<>>, <<"build">>)
       /\ requested' = requested \cup {<<setup.id, "get_bpm">>}
       /\ pending' = [w \in DOMAIN pending \ {turn} |-> pending[w]]
       /\ UNCHANGED <<scope, run, flag, turn, msarc, msbias, pixlocn, tslits_dict, maskslits,
                      wv_calib, mstilts>>

Next ==
    \/ set
    \/ get_bias
    \/ get_arc
    \/ get_bpm
    \/ get_pixlocn
    \/ get_slits
    \/ get_wv_calib
    \/ get_tilts
    \/ get_pixflatnrm

\* the hard chain and the slits
NextChain ==
    \/ set
    \/ get_bias
    \/ get_arc
    \/ get_bpm
    \/ get_pixlocn
    \/ get_slits

\* a run over an exposure table with one setup, under any settings; the
\* images the caller passes as optional arguments are the setup's masters
\* (what the accessors return, as in full_calibrate)
Init ==
    /\ Construct([setups |-> {"A"}, settings |-> SettingsSet, images |-> {"A"}])
    /\ NoLine

\* a run over an exposure table with two setups, reduced with one settings
\* bundle; the images the caller passes are its own ("user"), so that a
\* master of a setup is in use only where an accessor put it
InitTwo ==
    /\ Construct([setups |-> Setups, settings |-> {[flat |-> TRUE, wave |-> "fit"]},
                         images |-> {"user"}])
    /\ NoLine

\* the hard chain, called one by one or by its driver
NextDriver ==
    \/ set
    \/ get_bias
    \/ get_arc
    \/ get_bpm
    \/ get_pixlocn
    \/ full_calibrate

\* two callers of one object: each configures and asks for the bad pixel
\* mask, and the interpreter switches between them at any call and while
\* a mask is being built
NextWorkers ==
    \/ yield
    \/ configure
    \/ get_bpm_enter
    \/ get_bpm_leave

\* the stages that keep the slit mask, with what they need of the chain
NextMask ==
    \/ set
    \/ get_bpm
    \/ get_pixlocn
    \/ get_slits
    \/ get_wv_calib

\* the parser of the settings file, handed one line
NextFlag ==
    \/ set_flag
    \/ set_flag_while
    \/ set_flag_end

Spec == Init /\ [][Next]_vars

SpecTwo == InitTwo /\ [][NextChain]_vars

SpecMask == InitTwo /\ [][NextMask]_vars

SpecDriver == Init /\ [][NextDriver]_vars

\* two callers that work on the same setup
InitShared ==
    /\ Construct([setups |-> {"A"}, settings |-> {[flat |-> TRUE, wave |-> "fit"]},
                            images |-> {"user"}, homes |-> <<{"A"}, {"A"}>>])
    /\ NoLine

\* two callers that work on a setup each
InitSplit ==
    /\ Construct([setups |-> Setups, settings |-> {[flat |-> TRUE, wave |-> "fit"]},
                           images |-> {"user"}, homes |-> <<{"A"}, {"B"}>>])
    /\ NoLine

SpecShared == InitShared /\ [][NextWorkers]_vars

SpecSplit == InitSplit /\ [][NextWorkers]_vars

\* one set_flag call; the interpreter keeps running the loop
SpecFlag == Init /\ [][NextFlag]_vars /\ WF_vars(NextFlag)

\* ---------------------------------------------------------------- claims
Accessors == {"get_bias", "get_arc", "get_bpm", "get_pixlocn", "get_slits",
              "get_wv_calib", "get_tilts", "get_pixflatnrm"}

\* the accessors that keep their product in calib_dict, and its key
Tagged == Accessors \ {"get_pixlocn"}
TagOf(op) ==
    CASE op = "get_bias" -> "bias"
      [] op = "get_arc" -> "arc"
      [] op = "get_bpm" -> "bpm"
      [] op = "get_slits" -> "trace"
      [] op = "get_wv_calib" -> "wavecalib"
      [] op = "get_tilts" -> "tilts"
      [] op = "get_pixflatnrm" -> "normpixelflat"

Configured == ~IsNone(setup)
Held(s, k) == s \in DOMAIN calib_dict /\ k \in DOMAIN calib_dict[s]
Missing(x) == IsNone(x) \/ IsUnset(x)
BuilderEnded == {"ok", "BuildError", "PersistenceError"}

\* C1: a second call of the same accessor, right after a call of it that
\* built and returned an artifact, returns the same artifact and runs no
\* builder operation (no load, no second build).
C1_AtMostOnceBuild ==
    [][(/\ lastCall.op \in Tagged
        /\ lastCall.outcome = "ok"
        /\ IsArt(lastCall.ret)
        /\ \E i \in 1..Len(lastCall.bops) : lastCall.bops[i] = "build"
        /\ lastCall'.op = lastCall.op)
       => (/\ lastCall'.outcome = "ok"
           /\ lastCall'.ret = lastCall.ret
           /\ lastCall'.bops = <<>>)]_vars

\* C2: when an accessor returned an artifact that it loaded or built, the
\* bucket of the active setup holds that artifact under the accessor's key.
C2_StoreOnSuccess ==
    (/\ lastCall.op \in Tagged
     /\ lastCall.outcome = "ok"
     /\ IsArt(lastCall.ret)
     /\ lastCall.bops # <<>>)
    => (/\ Held(setup.id, TagOf(lastCall.op))
        /\ calib_dict[setup.id][TagOf(lastCall.op)] = lastCall.ret)

\* C3: a get_arc without a bias argument, right after a get_bias that
\* returned a bias, gets as far as the builder, uses the bias that get_bias
\* returned, and stores the arc it returns in the bucket of the setup.
C3_ArcAfterBias ==
    [][(/\ lastCall.op = "get_bias"
        /\ lastCall.outcome = "ok"
        /\ IsArt(lastCall.ret)
        /\ lastCall'.op = "get_arc"
        /\ lastCall'.args = {})
       => (/\ lastCall'.outcome \in BuilderEnded
           /\ msbias' = lastCall.ret
           /\ (lastCall'.outcome = "ok"
                 => Held(setup.id, "arc")' /\ calib_dict'[setup.id]["arc"] = lastCall'.ret))]_vars

\* C4: an accessor called before set ends with the configuration error, and
\* calib_dict stays empty.
C4_ConfigurationRequired ==
    (IsNone(setup) /\ lastCall.op \in Accessors)
    => (lastCall.outcome = "ConfigurationError" /\ DOMAIN calib_dict = {})

\* the warning names the bad pixel mask
NamesBpm(w) == w.arg \in {"msbpm", "bpm", "mbpm"}

\* C5: get_slits under a setup for which get_bpm was never called returns
\* nothing, logs exactly one warning, which names the bad pixel mask, and
\* the bucket holds no slits.
C5_SlitsGatedOnBpm ==
    (/\ lastCall.op = "get_slits"
     /\ Configured
     /\ <<setup.id, "get_bpm">> \notin requested)
    => (/\ lastCall.outcome = "unavailable"
        /\ Len(lastCall.warns) = 1
        /\ NamesBpm(lastCall.warns[1])
        /\ ~Held(setup.id, "trace"))

\* the objects an accessor uses as its prerequisites, as they are once its
\* optional arguments have been taken
Needs(op) ==
    CASE op = "get_arc" -> <<msbias>>
      [] op = "get_bpm" -> <<msarc>>
      [] op = "get_pixlocn" -> <<msarc>>
      [] op = "get_slits" -> <<pixlocn, msbpm>>
      [] op = "get_wv_calib" -> <<msarc, tslits_dict, pixlocn>>
      [] op = "get_tilts" -> <<msarc, tslits_dict, pixlocn, wv_calib>>
      [] op = "get_pixflatnrm" -> IF settings.flat THEN <<tslits_dict, mstilts>> ELSE <<>>
      [] OTHER -> <<>>
PrerequisiteMissing ==
    /\ lastCall.op \in Accessors
    /\ Configured
    /\ \E i \in 1..Len(Needs(lastCall.op)) : Missing(Needs(lastCall.op)[i])

\* C6: a call of an accessor under a configured scope, with a prerequisite
\* that is neither held nor passed as an argument, returns nothing, logs a
\* warning, raises nothing and leaves calib_dict as it was.
C6_SoftPrerequisiteFailure ==
    [][(lastCall'.op \in Accessors /\ PrerequisiteMissing')
       => (/\ lastCall'.outcome = "unavailable"
           /\ lastCall'.warns # <<>>
           /\ calib_dict' = calib_dict)]_vars

\* the arc in use is the master of another setup
ForeignArc == IsArt(msarc) /\ msarc.setup \in Setups \ {setup.id}

\* C7: a get_bpm without arguments under a setup for which get_arc was
\* never called, while the arc the object holds is the master of another
\* setup, reports the arc missing (it does not build from the other
\* setup's arc).
C7_ScopeIsolation ==
    (/\ lastCall.op = "get_bpm"
     /\ lastCall.args = {}
     /\ Configured
     /\ <<setup.id, "get_arc">> \notin requested
     /\ ForeignArc)
    => lastCall.outcome = "unavailable"

\* C8: with the arc of another setup built, a get_bpm without arguments
\* under a setup whose bucket is empty and for which get_arc was never
\* called returns nothing, logs a warning that mentions the arc, and leaves
\* the bucket empty.
C8_FreshSetupBpmBeforeArc ==
    [][(/\ lastCall'.op = "get_bpm"
        /\ lastCall'.args = {}
        /\ Configured
        /\ DOMAIN calib_dict[setup.id] = {}
        /\ <<setup.id, "get_arc">> \notin requested
        /\ ForeignArc
        /\ <<msarc.setup, "get_arc">> \in requested)
       => (/\ lastCall'.outcome = "unavailable"
           /\ \E i \in 1..Len(lastCall'.warns) : lastCall'.warns[i].arg \in {"arc", "msarc"}
           /\ calib_dict' = calib_dict)]_vars

\* a value made under setup s, or an image the caller passed
OfSetup(x, s) == IsArt(x) /\ x.setup \in {s, "user"}

\* C9: whenever a bad pixel mask or the slits enter the bucket of a setup,
\* the prerequisites in use (the arc; the pixel locations and the bad pixel
\* mask) are those of that setup, not what another setup left behind.
C9_NoUnmetPrerequisiteStored ==
    [][\A s \in Setups :
         /\ (Held(s, "bpm")' /\ ~Held(s, "bpm")) => OfSetup(msarc', s)
         /\ (Held(s, "trace")' /\ ~Held(s, "trace"))
               => (OfSetup(pixlocn', s) /\ OfSetup(msbpm', s))]_vars

\* C10 as stated: with the product of an accessor in the bucket of the
\* active setup, a call of the accessor returns that product, runs no
\* builder operation and leaves calib_dict as it was.
C10_CacheHitAlwaysReturns ==
    [][(/\ lastCall'.op \in Tagged
        /\ Configured
        /\ Held(setup.id, TagOf(lastCall'.op)))
       => (/\ lastCall'.outcome = "ok"
           /\ lastCall'.ret = calib_dict[setup.id][TagOf(lastCall'.op)]
           /\ lastCall'.bops = <<>>
           /\ calib_dict' = calib_dict)]_vars

\* C10, amended: with the product of an accessor in the bucket of the
\* active setup, a call of the accessor runs no builder operation and leaves
\* calib_dict as it was, and an artifact it returns is the one in the bucket
\* (the call may still end without it: in a failed check, in a failed mask
\* merge, or with flat fielding switched off).
C10_CacheHit ==
    [][(/\ lastCall'.op \in Tagged
        /\ Configured
        /\ Held(setup.id, TagOf(lastCall'.op)))
       => (/\ lastCall'.bops = <<>>
           /\ calib_dict' = calib_dict
           /\ (IsArt(lastCall'.ret)
                 => lastCall'.ret = calib_dict[setup.id][TagOf(lastCall'.op)]))]_vars

\* a get_wv_calib answered from the bucket
C10_Witness ==
    /\ lastCall.op = "get_wv_calib"
    /\ lastCall.outcome = "ok"
    /\ lastCall.bops = <<>>
    /\ Held(setup.id, "wavecalib")
    /\ lastCall.ret = calib_dict[setup.id]["wavecalib"]

\* C11 as stated: set never removes or alters a bucket or an entry that is
\* already in calib_dict; and after a set that comes back to a setup whose
\* bucket holds the product of an accessor (another setup having been
\* configured in between), a call of the accessor returns that product and
\* runs no builder operation.
C11_ReconfigureKeepsCache ==
    [][/\ (lastCall'.op = "set"
            => \A s \in DOMAIN calib_dict :
                  s \in DOMAIN calib_dict' /\ calib_dict'[s] = calib_dict[s])
       /\ ((/\ lastCall.op = "set"
            /\ \E s \in DOMAIN calib_dict : s # setup.id
            /\ lastCall'.op \in Tagged
            /\ Held(setup.id, TagOf(lastCall'.op)))
           => (/\ lastCall'.outcome = "ok"
               /\ lastCall'.ret = calib_dict[setup.id][TagOf(lastCall'.op)]
               /\ lastCall'.bops = <<>>))]_vars

\* C12: an entry of calib_dict stays in place with the value it has, in
\* every step (every set and every accessor call).
C12_NoEviction ==
    [][\A s \in DOMAIN calib_dict :
         /\ s \in DOMAIN calib_dict'
         /\ \A k \in DOMAIN calib_dict[s] :
               /\ k \in DOMAIN calib_dict'[s]
               /\ calib_dict'[s][k] = calib_dict[s][k]]_vars

\* a set that follows the caching of every product the bucket can hold
C12_Witness ==
    /\ lastCall.op = "set"
    /\ Configured
    /\ \A k \in {"bpm", "trace", "wavecalib", "wvmask", "tilts", "wtmask",
                  "normpixelflat", "slitprof"} : Held(setup.id, k)

IsMask(x) == x.tag = "mask"
Flagged(x) == IsMask(x) /\ \E i \in 1..Len(x.m) : x.m[i]

\* the step stores the slits of the active setup (they were loaded or built)
SlitsStored == Configured /\ ~Held(setup.id, "trace") /\ Held(setup.id, "trace")'

\* C13: in every accessor call that does not store new slits, each slit that
\* is flagged in the mask before the call is still flagged after it.
C13_MaskMonotone ==
    [][(/\ lastCall'.op \in Accessors
        /\ IsMask(maskslits) /\ IsMask(maskslits')
        /\ ~SlitsStored)
       => \A i \in 1..Len(maskslits.m) :
             maskslits.m[i] => (i <= Len(maskslits'.m) /\ maskslits'.m[i])]_vars

\* C14: the mask is set to all-false only in a get_slits that loads or
\* builds the slits; a get_slits answered from the bucket leaves the mask
\* as it was.
C14_ResetOnlyAtBuild ==
    [][/\ (/\ lastCall'.op = "get_slits"
            /\ lastCall'.outcome = "ok"
            /\ lastCall'.bops = <<>>
            /\ IsMask(maskslits))
           => maskslits' = maskslits
       /\ (Flagged(maskslits) /\ IsMask(maskslits') /\ ~Flagged(maskslits'))
           => (lastCall'.op = "get_slits" /\ lastCall'.bops # <<>>)]_vars

\* the stages that merge a mask, and the key under which the stage mask is kept
Stages == {"get_wv_calib", "get_tilts"}
StageKey(op) == IF op = "get_wv_calib" THEN "wvmask" ELSE "wtmask"
HeldAfter(s, k) == s \in DOMAIN calib_dict' /\ k \in DOMAIN calib_dict'[s]

\* C15: when get_wv_calib or get_tilts returns, the mask has the length it
\* had, the stage mask (the one kept with the artifact; all-false when the
\* wavelength stage is skipped) has that length too, and each position of
\* the mask is the OR of its value before the call and the stage's value.
C15_OrMerge ==
    [][(lastCall'.op \in Stages /\ lastCall'.outcome = "ok")
       => LET key == StageKey(lastCall'.op)
              stage == IF HeldAfter(setup.id, key) THEN calib_dict'[setup.id][key]
                       ELSE ZerosLike(maskslits)
          IN /\ Len(maskslits'.m) = Len(maskslits.m)
             /\ Len(stage.m) = Len(maskslits.m)
             /\ \A i \in 1..Len(maskslits.m) :
                   maskslits'.m[i] = (maskslits.m[i] \/ stage.m[i])]_vars

\* C16: whenever a setup is active and the mask exists, the bucket of the
\* setup holds slits and the mask has one position per slit.
C16_MaskLength ==
    (Configured /\ IsMask(maskslits))
    => (/\ Held(setup.id, "trace")
        /\ Len(maskslits.m) = calib_dict[setup.id]["trace"].nslits)

\* C17: when get_wv_calib or get_tilts gets as far as the merge with a
\* stage mask whose length is not the length of the mask, the call ends in
\* the shape error and the mask is as it was.
C17_ShapeMismatch ==
    [][(/\ lastCall'.op \in Stages
        /\ lastCall'.outcome \in {"ok", "ValueError"}
        /\ HeldAfter(setup.id, StageKey(lastCall'.op))
        /\ Len(calib_dict'[setup.id][StageKey(lastCall'.op)].m) # Len(maskslits.m))
       => (lastCall'.outcome = "ValueError" /\ maskslits' = maskslits)]_vars

\* C18: a flag in the mask in use under a setup was set by a stage of that
\* setup (the bucket of the setup holds a stage mask with a flag).
C18_IndependentMasks ==
    (Configured /\ Flagged(maskslits))
    => \E k \in {"wvmask", "wtmask"} :
          Held(setup.id, k) /\ Flagged(calib_dict[setup.id][k])

\* C19: a full_calibrate under a configured scope in which no builder
\* failed calls get_bias, get_arc, get_bpm and get_pixlocn in this order
\* and completes, and the bias, the arc, the bad pixel mask and the pixel
\* locations are then available.
C19_PipelineDriver ==
    (/\ lastCall.op = "full_calibrate"
     /\ Configured
     /\ lastCall.outcome \notin {"BuildError", "PersistenceError"})
    => (/\ lastCall.outcome = "ok"
        /\ lastCall.calls = <<"get_bias", "get_arc", "get_bpm", "get_pixlocn">>
        /\ IsArt(msbias) /\ IsArt(msarc) /\ IsArt(msbpm) /\ IsArt(pixlocn))

\* C20: a get_pixflatnrm under settings that switch flat fielding off
\* returns (None, None) without raising, runs no builder operation and
\* leaves calib_dict and the mask as they were, with or without the slits
\* and the tilts.
C20_FlatDisabledNoOp ==
    [][(/\ lastCall'.op = "get_pixflatnrm"
        /\ ~IsNone(settings)
        /\ ~settings.flat)
       => (/\ lastCall'.outcome = "ok"
           /\ IsNone(lastCall'.ret) /\ IsNone(lastCall'.ret2)
           /\ lastCall'.warns = <<>>
           /\ lastCall'.bops = <<>>
           /\ calib_dict' = calib_dict
           /\ maskslits' = maskslits)]_vars

\* a get_pixflatnrm with flat fielding off that returned while neither the
\* slits nor the tilts exist
C20_Witness ==
    /\ lastCall.op = "get_pixflatnrm"
    /\ lastCall.outcome = "ok"
    /\ ~IsNone(settings) /\ ~settings.flat
    /\ IsNone(tslits_dict) /\ IsUnset(mstilts)

\* the accessors that store what they build and save it with the builder
Saving == {"get_slits", "get_wv_calib", "get_tilts", "get_pixflatnrm"}

\* C23: when the save of a newly built product fails in an accessor that
\* caches its product, the call fails towards the caller and the product
\* is in the bucket of the active setup all the same.
C23_PersistenceError ==
    [][(lastCall'.op \in Saving /\ lastCall'.outcome = "PersistenceError")
       => HeldAfter(setup.id, TagOf(lastCall'.op))]_vars

HowMany(seq, x) == Cardinality({i \in 1..Len(seq) : seq[i] = x})

\* C24: an accessor call in which the build fails returns nothing to the
\* caller (it raises), has run the build exactly once, and leaves
\* calib_dict and the mask as they were.
C24_BuildError ==
    [][(lastCall'.op \in Accessors /\ lastCall'.outcome = "BuildError")
       => (/\ IsNone(lastCall'.ret) /\ IsNone(lastCall'.ret2)
           /\ HowMany(lastCall'.bops, "build") = 1
           /\ calib_dict' = calib_dict
           /\ maskslits' = maskslits)]_vars

\* a failed build of the tilts while the mask carries a flag and the bucket
\* holds the wavelength solution
C24_Witness ==
    /\ lastCall.op = "get_tilts"
    /\ lastCall.outcome = "BuildError"
    /\ Flagged(maskslits)
    /\ Held(setup.id, "wavecalib")

\* the builder operations of a call are in order: a load first, a build
\* only right after a load (which found nothing), a save only after a build
LoadBuildPersist(b) ==
    /\ b # <<>> => b[1] = "load"
    /\ \A i \in 1..Len(b) :
          /\ b[i] = "build" => (i > 1 /\ b[i - 1] = "load")
          /\ b[i] = "persist" => \E j \in 1..(i - 1) : b[j] = "build"

\* C25 as stated: every accessor call that runs the builder loads first,
\* builds only after a load that found nothing, and saves only after a build.
C25_LoadBeforeBuildAll ==
    [][lastCall'.op \in Tagged => LoadBuildPersist(lastCall'.bops)]_vars

\* C25, amended: that order holds for the accessors whose builder keeps a
\* master (bias, arc, slits, wavelength solution, tilts, flat); get_bpm
\* runs the build alone, with no load and no save.
C25_LoadBeforeBuild ==
    [][/\ lastCall'.op \in Tagged \ {"get_bpm"} => LoadBuildPersist(lastCall'.bops)
       /\ lastCall'.op = "get_bpm" => lastCall'.bops \in {<<>>, <<"build">>}]_vars

\* the wavelength solution was built and saved after a load that found nothing
C25_Witness ==
    /\ lastCall.op = "get_wv_calib"
    /\ lastCall.outcome = "ok"
    /\ lastCall.bops = <<"load", "build", "persist">>

\* C26: no accessor call changes the settings in use (it adds, removes or
\* changes no key of the bundle).
C26_SettingsImmutable ==
    [][lastCall'.op \in Accessors => settings' = settings]_vars

\* C27: an accessor call changes no bucket other than the one of the active
\* setup, and adds or removes no bucket.
C27_BucketIsolation ==
    [][lastCall'.op \in Accessors
       => (/\ DOMAIN calib_dict' = DOMAIN calib_dict
           /\ \A s \in DOMAIN calib_dict :
                 (IsNone(setup) \/ s # setup.id) => calib_dict'[s] = calib_dict[s])]_vars

\* an accessor stored its product under one setup while the bucket of the
\* other setup holds products
C27_Witness ==
    /\ lastCall.op = "get_slits"
    /\ lastCall.outcome = "ok"
    /\ lastCall.bops # <<>>
    /\ \E s \in DOMAIN calib_dict : s # setup.id /\ Held(s, "trace") /\ Held(s, "bpm")

\* C28: a get_wv_calib under a setup whose bucket holds no wavelength
\* solution, with the wavelength mode 'pixel', runs no builder operation,
\* stores nothing, leaves the mask as it was and returns no solution; when
\* the arc, the slits and the pixel locations exist it returns, and what it
\* returns with the None is the mask.
C28_PixelMode ==
    [][(/\ lastCall'.op = "get_wv_calib"
        /\ Configured
        /\ settings.wave = "pixel"
        /\ ~Held(setup.id, "wavecalib"))
       => (/\ lastCall'.bops = <<>>
           /\ calib_dict' = calib_dict
           /\ maskslits' = maskslits
           /\ IsNone(lastCall'.ret)
           /\ lastCall'.outcome \in {"ok", "unavailable"}
           /\ lastCall'.outcome = "ok" => lastCall'.ret2 = maskslits
           /\ (IsArt(msarc') /\ IsArt(tslits_dict) /\ IsArt(pixlocn))
                 => lastCall'.outcome = "ok")]_vars

\* a get_wv_calib in pixel mode that returned while the mask carries a flag
C28_Witness ==
    /\ lastCall.op = "get_wv_calib"
    /\ lastCall.outcome = "ok"
    /\ IsNone(lastCall.ret)
    /\ settings.wave = "pixel"
    /\ ~Held(setup.id, "wavecalib")
    /\ Flagged(maskslits)

\* get_wv_calib has just returned None in pixel mode
PixelReturned ==
    /\ lastCall.op = "get_wv_calib"
    /\ lastCall.outcome = "ok"
    /\ IsNone(lastCall.ret)
    /\ Configured
    /\ settings.wave = "pixel"

\* C29: in the accessor call that follows a get_wv_calib that returned None
\* in pixel mode, a get_tilts returns nothing (unavailable), and the call
\* stores neither tilts nor a normalized flat in the bucket of the setup.
C29_PixelNoTilts ==
    [][(PixelReturned /\ lastCall'.op \in Accessors)
       => (/\ lastCall'.op = "get_tilts" => lastCall'.outcome = "unavailable"
           /\ HeldAfter(setup.id, "tilts") => Held(setup.id, "tilts")
           /\ HeldAfter(setup.id, "normpixelflat") => Held(setup.id, "normpixelflat"))]_vars

\* C30: a get_wv_calib or get_tilts answered from the bucket right after a
\* call of the same accessor that returned leaves the mask as that call
\* left it; and answered from the bucket right after a get_slits that
\* returned (and re-seeded the mask), it does not raise, and when it returns
\* the mask is the stage mask kept with the artifact.
C30_RemergeIdempotent ==
    [][/\ (/\ lastCall.op \in Stages
            /\ lastCall.outcome = "ok"
            /\ lastCall'.op = lastCall.op
            /\ Held(setup.id, StageKey(lastCall.op)))
           => (lastCall'.outcome = "ok" /\ maskslits' = maskslits)
       /\ (/\ lastCall.op = "get_slits"
            /\ lastCall.outcome = "ok"
            /\ lastCall'.op \in Stages
            /\ Held(setup.id, StageKey(lastCall'.op)))
           => (/\ lastCall'.outcome \in {"ok", "unavailable"}
               /\ lastCall'.outcome = "ok"
                     => maskslits' = calib_dict[setup.id][StageKey(lastCall'.op)])]_vars

\* C21: no build of the bad pixel mask returns while the bucket of the
\* setup already holds the mask (a second caller that missed the cache did
\* not wait for the first to store it: the build ran twice).
C21_SingleBuild ==
    [][(lastCall' # lastCall /\ lastCall'.op = "get_bpm" /\ lastCall'.bops # <<>>)
       => ~Held(setup.id, "bpm")]_vars

\* C22: once a caller has configured a setup it works on, a call of it
\* changes only the bucket of such a setup.
C22_CrossConfiguration ==
    [][\A s \in DOMAIN calib_dict :
         (/\ calib_dict'[s] # calib_dict[s]
          /\ \E h \in run.homes[lastCall'.by] : h \in DOMAIN calib_dict)
         => s \in run.homes[lastCall'.by]]_vars

\* the step is a get_tilts that took its tilts from waveTilts.master()
TiltsLoaded ==
    /\ Configured
    /\ ~Held(setup.id, "tilts")
    /\ HeldAfter(setup.id, "tilts")
    /\ lastCall'.op = "get_tilts"
    /\ lastCall'.bops = <<"load">>

\* C31: a get_tilts that loads its tilts returns them, leaves the mask as it
\* was, and keeps with them a tilt stage mask of the mask's length that flags
\* no slit; a tilt stage mask that is kept is never replaced.
C31_LoadedTiltsMask ==
    [][/\ TiltsLoaded
          => (/\ lastCall'.outcome = "ok"
              /\ lastCall'.ret = calib_dict'[setup.id]["tilts"]
              /\ maskslits' = maskslits
              /\ lastCall'.ret2 = maskslits
              /\ HeldAfter(setup.id, "wtmask")
              /\ calib_dict'[setup.id]["wtmask"] = Zeros(Len(maskslits.m)))
       /\ \A s \in DOMAIN calib_dict :
            "wtmask" \in DOMAIN calib_dict[s]
               => calib_dict'[s]["wtmask"] = calib_dict[s]["wtmask"]]_vars

\* the tilts were loaded while the mask flagged a slit, and the mask still
\* flags it
C31_Witness ==
    /\ lastCall.op = "get_tilts"
    /\ lastCall.bops = <<"load">>
    /\ lastCall.outcome = "ok"
    /\ Held(setup.id, "wtmask")
    /\ ~Flagged(calib_dict[setup.id]["wtmask"])
    /\ Len(calib_dict[setup.id]["wtmask"].m) = MaxSlits
    /\ Flagged(maskslits)

\* the image a caller passed for an optional argument (no builder makes it)
Passed(t) == Art(t, "user", 0)

\* a call that passes an image leaves it in the attribute
OverrideAssigned ==
    /\ "arc" \in lastCall'.args => msarc' = Passed("arc")
    /\ "bias" \in lastCall'.args => msbias' = Passed("bias")

\* a call that needs the arc and passes none works on the arc that is held
HeldArcUsed ==
    /\ (/\ lastCall'.op = "get_pixlocn"
         /\ lastCall'.args = {}
         /\ msarc = Passed("arc")
         /\ ~IsNone(settings))
        => (lastCall'.outcome = "ok" /\ msarc' = msarc)
    /\ (/\ lastCall'.op = "get_bpm"
         /\ lastCall'.args = {}
         /\ msarc = Passed("arc")
         /\ Configured)
        => (lastCall'.outcome \in {"ok", "BuildError"} /\ msarc' = msarc)

C33_SetFlagTerminates == (at = "while") ~> (at \in {"returned", "error"})
====
